---- MODULE Spec2Model ----
(***************************************************************************)
(* Streamlit front end of the solar panel fault detection demo (app.py)    *)
(* together with the one-off weight-file script (create_model.py).         *)
(*                                                                         *)
(* app.py is a script that Streamlit executes top to bottom once per user  *)
(* interaction ("run").  What survives from one run to the next is         *)
(*   - the st.cache_resource entry of get_model (process wide),            *)
(*   - st.session_state (per browser session),                             *)
(*   - the values of the widgets that the previous run rendered.           *)
(* Every action below is one user interaction followed by the complete     *)
(* script run it triggers.  The record `ui` is what that run put on the    *)
(* page.                                                                   *)
(*                                                                         *)
(* src/predict.py, src/fault_info.py and src/office_locator.py are         *)
(* imported by app.py but are not part of the available sources; they are  *)
(* modelled from their contracts in the specification (sections 3, 4).     *)
(* Wall-clock strings appear only as the abstract value Now; the           *)
(* probability expander, the mailto:/tel: links and layout calls write no  *)
(* state and are left out.                                                 *)
(***************************************************************************)
EXTENDS Integers, Sequences, FiniteSets, TLC

VARIABLES
    weights,         \* model/solar_model.pth exists on disk
    fault_db,        \* the static fault-information table of src/fault_info.py
    model_cache,     \* st.cache_resource entry of get_model: <<>> or <<handle>>
    load_calls,      \* number of load_model() invocations so far
    session_state,   \* st.session_state: entries 'fault_report', 'report_text'
    uploaded_image,  \* value of the file uploader: <<>> or <<file>>
    user_pincode,    \* value of the pincode text input (sequence of characters)
    ui,              \* what the most recent run rendered / computed
    last_stored,     \* history: report text stored by the latest run strictly
                     \* before the most recent one in this session (<<>>: none)
    assembled        \* history: the fault sections of all reports assembled
                     \* in the process so far

vars == <<weights, fault_db, model_cache, load_calls, session_state,
          uploaded_image, user_pincode, ui, last_stored, assembled>>

----
\* Bounds of the model.

MaxLoads == 2       \* load_model is invoked at most this often
MaxPinLen == 4      \* longest pincode the user types

----
\* Optional values and dictionaries.

Absent == <<>>
Some(x) == <<x>>

\* dict.get(key, default); an info record is a function whose DOMAIN is the
\* set of keys present, the empty dict is the function with empty domain.
DictGet(d, k, dflt) == IF k \in DOMAIN d THEN d[k] ELSE dflt

----
\* src/predict.py (not available): labels and predict.

HealthyPanel == "Healthy Panel"
KnownLabels == {HealthyPanel, "Hot Spots"}
UnlistedLabel == "Unlisted Fault"
CLASS_NAMES == KnownLabels \cup {UnlistedLabel}

\* Confidence in units of 1/10000 (0.3125 is 3125).
Confidences == {3125, 8766}

\* A decoded image is identified with what the classifier sees in it.
Images == [label : CLASS_NAMES, confidence : Confidences]

predict(image, model) ==
    [fault_type |-> image.label, confidence |-> image.confidence, handle |-> model]

----
\* src/fault_info.py (not available): the static table and its lookup.

Severities == {"Low", "Medium", "High"}

InfoFor(label, sev) ==
    IF label = HealthyPanel
    THEN [description |-> "about: " \o label,
          severity |-> sev,
          repair_steps |-> <<>>,
          prevention |-> <<"clean regularly">>]
    ELSE [description |-> "about: " \o label,
          severity |-> sev,
          symptoms |-> <<"dark area">>,
          repair_steps |-> <<"inspect", "replace">>,
          prevention |-> <<"handle with care">>,
          cost_estimate |-> "cost of " \o label]

FaultTables == { [l \in KnownLabels |-> InfoFor(l, sv[l])] : sv \in [KnownLabels -> Severities] }

get_fault_info(label) ==
    IF label \in DOMAIN fault_db THEN fault_db[label] ELSE <<>>

----
\* src/office_locator.py (not available): prefix keyed office directory.

Office(name, digits) ==
    [office_name |-> name,
     email |-> name \o "@solar.example",
     phone |-> "+91-" \o digits,
     address |-> name \o " service centre",
     working_hours |-> "9-18"]

OfficePrefixes == { <<"1", "1">>, <<"1", "1", "0">> }

OfficeAt(prefix) ==
    IF prefix = <<"1", "1">> THEN Office("delhi-region", "11")
    ELSE Office("delhi-central", "110")

RECURSIVE StripLeft(_)
StripLeft(s) == IF s # <<>> /\ Head(s) = " " THEN StripLeft(Tail(s)) ELSE s

RECURSIVE StripRight(_)
StripRight(s) ==
    IF s # <<>> /\ s[Len(s)] = " " THEN StripRight(SubSeq(s, 1, Len(s) - 1)) ELSE s

Normalize(code) == StripRight(StripLeft(code))

IsPrefix(p, s) == Len(p) <= Len(s) /\ SubSeq(s, 1, Len(p)) = p

find_nearest_office(code) ==
    LET n == Normalize(code)
        hits == { p \in OfficePrefixes : IsPrefix(p, n) }
    IN  IF hits = {} THEN Absent
        ELSE Some(OfficeAt(CHOOSE p \in hits : \A q \in hits : Len(q) <= Len(p)))

----
\* Inputs the user can give.

\* What the user may type: nothing, codes shorter than four characters (with
\* and without an office), codes of four and more, one with a leading blank.
TypedPins == { <<>>, <<"1", "1">>, <<"0", "0", "0">>,
               <<"1", "1", "0", "0">>, <<"1", "1", "1", "1">>,
               <<" ", "1", "1", "0">>, <<"0", "0", "0", "0">>,
               <<"1", "1", "0", "0", "1">> }

Pincodes == { p \in TypedPins : Len(p) <= MaxPinLen }

\* An uploaded file: bytes PIL cannot decode, or an image.  The uploader
\* filters by extension only.
NotAnImage == <<>>
Uploads == {NotAnImage} \cup { Some(i) : i \in Images }

\* Image.open(uploaded_image).convert("RGB"): the image, or <<>> when PIL
\* raises on the file.
ImageOpen(file) == file

Names == {"", "asha"}
Phones == {"", "98"}
Emails == {"", "a@x"}
Locations == {""}
Notes == {""}
FormInputs == [name : Names, phone : Phones, email : Emails,
               panel_location : Locations, additional_notes : Notes]
NoForm == [name |-> "", phone |-> "", email |-> "",
           panel_location |-> "", additional_notes |-> ""]

\* datetime.now().strftime(...): the reading of the wall clock, not modelled
\* beyond its presence in the report.
Now == "now"

----
\* app.py, top of the script: the cached model.

\* @st.cache_resource get_model(): a cached value is returned without calling
\* load_model; otherwise load_model runs, raising LoadError when the weight
\* file is missing (nothing is cached then, the run ends with the exception).
get_model(cache, file_present, calls) ==
    IF cache # Absent
    THEN [ok |-> TRUE, cache |-> cache, calls |-> calls]
    ELSE LET n == calls + 1
         IN  IF file_present
             THEN [ok |-> TRUE, cache |-> Some(n), calls |-> n]
             ELSE [ok |-> FALSE, cache |-> Absent, calls |-> n]

\* Sidebar: the download button and the data it offers.
SidebarDownload(session) ==
    IF session.fault_report # Absent
    THEN Some(IF session.report_text # Absent THEN session.report_text[1] ELSE <<>>)
    ELSE Absent

----
\* app.py, result display.

ResultLevel(fault_type, fault_info) ==
    IF fault_type = HealthyPanel THEN "success"
    ELSE IF DictGet(fault_info, "severity", "None") = "High" THEN "error"
    ELSE IF DictGet(fault_info, "severity", "None") = "Medium" THEN "warning"
    ELSE "info"

DescriptionShown(fault_info) ==
    DictGet(fault_info, "description", "No description available.")

SeverityShown(fault_type, fault_info) ==
    IF fault_type # HealthyPanel
    THEN Some(DictGet(fault_info, "severity", "Unknown"))
    ELSE Absent

SymptomsShown(fault_info) ==
    IF "symptoms" \in DOMAIN fault_info THEN Some(fault_info["symptoms"]) ELSE Absent

RepairShown(fault_info) == DictGet(fault_info, "repair_steps", <<>>)

PreventionShown(fault_info) == DictGet(fault_info, "prevention", <<>>)

CostShown(fault_info) ==
    IF "cost_estimate" \in DOMAIN fault_info THEN Some(fault_info["cost_estimate"]) ELSE Absent

\* The confidences c/10000 half way between two tenths of a percent
\* (c % 10 = 5) for which the double confidence*100 formats to the lower
\* tenth: the product is the exact tie and the lower tenth is even, or the
\* product lies below the tie.
TiesFormattedDown ==
    {
      15, 25, 45, 55, 95, 115, 125, 185, 195, 215, 225, 255,
      265, 295, 305, 315, 325, 355, 365, 405, 425, 435, 455, 515,
      525, 535, 555, 595, 605, 625, 635, 705, 715, 725, 735, 745,
      755, 765, 785, 825, 835, 865, 885, 895, 905, 925, 935, 945,
      985, 1025, 1035, 1045, 1055, 1085, 1095, 1125, 1135, 1185, 1195, 1205,
      1225, 1235, 1245, 1285, 1325, 1415, 1425, 1435, 1445, 1455, 1465, 1485,
      1495, 1505, 1525, 1535, 1545, 1585, 1625, 1645, 1725, 1735, 1745, 1755,
      1765, 1785, 1795, 1815, 1825, 1845, 1865, 1895, 1915, 1925, 1945, 2025,
      2035, 2045, 2055, 2065, 2085, 2095, 2115, 2125, 2135, 2145, 2165, 2195,
      2215, 2225, 2245, 2295, 2325, 2345, 2355, 2365, 2385, 2395, 2415, 2425,
      2435, 2445, 2465, 2495, 2515, 2525, 2545, 2595, 2625, 2815, 2825, 2835,
      2845, 2855, 2865, 2875, 2885, 2895, 2905, 2915, 2925, 2935, 2945, 2955,
      2965, 2985, 2995, 3005, 3015, 3025, 3035, 3045, 3065, 3095, 3115, 3125,
      3145, 3165, 3195, 3205, 3215, 3225, 3265, 3315, 3325, 3425, 3445, 3455,
      3465, 3485, 3495, 3505, 3515, 3525, 3545, 3555, 3565, 3595, 3605, 3615,
      3625, 3645, 3655, 3665, 3705, 3715, 3725, 3755, 3765, 3805, 3815, 3825,
      3865, 3915, 3925, 3965, 4025, 4065, 4085, 4095, 4105, 4115, 4125, 4135,
      4145, 4155, 4165, 4195, 4205, 4215, 4225, 4245, 4255, 4265, 4305, 4315,
      4325, 4355, 4365, 4405, 4415, 4425, 4455, 4465, 4515, 4525, 4565, 4625,
      4695, 4705, 4715, 4725, 4735, 4745, 4755, 4765, 4795, 4805, 4815, 4825,
      4845, 4855, 4865, 4895, 4905, 4915, 4925, 4955, 4965, 5005, 5015, 5025,
      5035, 5045, 5055, 5065, 5075, 5085, 5095, 5105, 5115, 5125, 5135, 5145,
      5155, 5165, 5175, 5185, 5195, 5205, 5215, 5225, 5235, 5245, 5255, 5265,
      5285, 5295, 5305, 5315, 5325, 5335, 5345, 5355, 5365, 5385, 5395, 5405,
      5415, 5425, 5445, 5455, 5465, 5495, 5505, 5515, 5525, 5555, 5565, 5605,
      5615, 5625, 5655, 5665, 5705, 5715, 5725, 5765, 5815, 5825, 5925, 6025,
      6255, 6265, 6275, 6285, 6295, 6305, 6315, 6325, 6335, 6345, 6355, 6365,
      6375, 6385, 6395, 6405, 6415, 6425, 6435, 6455, 6465, 6485, 6505, 6515,
      6525, 6535, 6555, 6565, 6585, 6605, 6615, 6625, 6635, 6655, 6665, 6685,
      6705, 6725, 6735, 6755, 6785, 6805, 6825, 6835, 6855, 6885, 6905, 6925,
      6935, 6955, 6985, 7005, 7025, 7035, 7055, 7105, 7125, 7155, 7205, 7225,
      7255, 7305, 7325, 7425, 7505, 7515, 7525, 7535, 7545, 7555, 7565, 7585,
      7595, 7605, 7615, 7625, 7635, 7645, 7655, 7665, 7685, 7705, 7715, 7725,
      7735, 7755, 7765, 7785, 7805, 7815, 7825, 7835, 7855, 7865, 7885, 7905,
      7915, 7925, 7935, 7955, 7985, 8005, 8025, 8035, 8055, 8085, 8105, 8125,
      8135, 8155, 8185, 8205, 8225, 8235, 8255, 8285, 8305, 8325, 8355, 8405,
      8425, 8455, 8505, 8525, 8555, 8625, 8725, 8755, 8765, 8785, 8795, 8805,
      8815, 8825, 8835, 8845, 8855, 8865, 8885, 8895, 8905, 8915, 8925, 8935,
      8955, 8965, 8985, 9005, 9015, 9025, 9035, 9055, 9065, 9085, 9105, 9115,
      9125, 9135, 9155, 9165, 9185, 9205, 9225, 9235, 9255, 9285, 9305, 9325,
      9335, 9355, 9385, 9405, 9425, 9435, 9455, 9485, 9505, 9525, 9535, 9555,
      9605, 9625, 9655, 9705, 9725, 9755, 9805, 9825, 9925 }

\* f"{confidence*100:.1f}%": the double confidence*100 rounded to a tenth of
\* a percent, ties of the binary value to even.
PctTenths(confidence) ==
    IF confidence % 10 = 5 /\ confidence \in TiesFormattedDown
    THEN (confidence - 5) \div 10
    ELSE (confidence + 5) \div 10

\* Variant: the tenth is truncated instead of rounded.
FormatPctTruncated(confidence) ==
    ToString(confidence \div 100) \o "." \o ToString((confidence \div 10) % 10) \o "%"

FormatPct(confidence) ==
    ToString(PctTenths(confidence) \div 10) \o "." \o
    ToString(PctTenths(confidence) % 10) \o "%"

----
\* app.py, office section and report form.

LookupRequested(find_office_btn, pincode) ==
    find_office_btn \/ (pincode # <<>> /\ Len(pincode) >= 4)

\* Variant: the `if office:` test is missing.
FormRenderedNoOfficeTest(office, fault_type) == fault_type # HealthyPanel

\* Variant: the `fault_type != "Healthy Panel"` test is missing.
FormRenderedNoHealthyTest(office, fault_type) == office # Absent

FormRendered(office, fault_type) ==
    office # Absent /\ fault_type # HealthyPanel

\* Variant: the email is not required.
RequiredFieldsNoEmail(f) == f.name # "" /\ f.phone # ""

RequiredFieldsPresent(f) == f.name # "" /\ f.phone # "" /\ f.email # ""

ReportSeverity(fault_info) == DictGet(fault_info, "severity", "Unknown")

ReportDescription(fault_info) == DictGet(fault_info, "description", "")

\* Variant: the description is read from the office record.
BuildReportOfficeText(now, f, pincode, fault_type, confidence, fault_info, office) ==
    [timestamp |-> now,
     user_details |-> [name |-> f.name, phone |-> f.phone, email |-> f.email,
                       pincode |-> pincode, panel_location |-> f.panel_location],
     fault_detection |-> [fault_type |-> fault_type,
                          confidence |-> FormatPct(confidence),
                          severity |-> DictGet(fault_info, "severity", "Unknown"),
                          description |-> office.address],
     office_details |-> [office_name |-> office.office_name,
                         email |-> office.email,
                         phone |-> office.phone,
                         address |-> office.address],
     additional_notes |-> f.additional_notes]

BuildReport(now, f, pincode, fault_type, confidence, fault_info, office) ==
    [timestamp |-> now,
     user_details |-> [name |-> f.name, phone |-> f.phone, email |-> f.email,
                       pincode |-> pincode, panel_location |-> f.panel_location],
     fault_detection |-> [fault_type |-> fault_type,
                          confidence |-> FormatPct(confidence),
                          severity |-> ReportSeverity(fault_info),
                          description |-> ReportDescription(fault_info)],
     office_details |-> [office_name |-> office.office_name,
                         email |-> office.email,
                         phone |-> office.phone,
                         address |-> office.address],
     additional_notes |-> f.additional_notes]

\* The f-string of the text report, one <<prefix, value>> pair per filled line.
BuildReportText(report, f, pincode, fault_type, confidence, fault_info, office) ==
    << <<"Date: ", report.timestamp>>,
       <<"User: ", f.name>>,
       <<"Phone: ", f.phone>>,
       <<"Email: ", f.email>>,
       <<"Pincode: ", pincode>>,
       <<"Location: ", f.panel_location>>,
       <<"- Type: ", fault_type>>,
       <<"- Confidence: ", FormatPct(confidence)>>,
       <<"- Severity: ", ReportSeverity(fault_info)>>,
       <<"- Description: ", ReportDescription(fault_info)>>,
       <<"- Name: ", office.office_name>>,
       <<"- Address: ", office.address>>,
       <<"- Phone: ", office.phone>>,
       <<"- Email: ", office.email>>,
       <<"Additional Notes: ", f.additional_notes>> >>

\* Variant: only the text is kept.
StoreReportTextOnly(session, report, report_text) ==
    [session EXCEPT !.report_text = Some(report_text)]

StoreReport(session, report, report_text) ==
    [session EXCEPT !.fault_report = Some(report), !.report_text = Some(report_text)]

NoticeFor(has_image, lookup, pincode, office) ==
    IF ~has_image THEN "upload_image"
    ELSE IF ~lookup THEN "none"
    ELSE IF pincode = <<>> THEN "enter_pincode"
    ELSE IF office = Absent THEN "no_office"
    ELSE "none"

----
\* One complete execution of app.py.

EmptySession == [fault_report |-> Absent, report_text |-> Absent]

\* A page on which nothing has been rendered.
BlankUI ==
    [crashed |-> FALSE, new_session |-> FALSE,
     uploader |-> FALSE, download |-> Absent,
     prediction |-> Absent, level |-> "none", description |-> Absent,
     severity_line |-> Absent, symptoms |-> Absent, repair_steps |-> <<>>,
     prevention |-> <<>>, cost |-> Absent,
     pincode_input |-> FALSE, find_office_btn |-> FALSE,
     lookup |-> "skipped", office |-> Absent, notice |-> "none",
     form_rendered |-> FALSE, submit_event |-> FALSE, submitted |-> FALSE,
     fields |-> NoForm, form_msg |-> "none",
     report |-> Absent, report_text |-> Absent, stored |-> Absent,
     session_before |-> EmptySession]

\* The event that triggers a run: the session and widget values the script
\* will read, the two one-shot button flags, and the clock.
Event(session, image, pincode, find, submit, form, fresh) ==
    [session |-> session, image |-> image, pincode |-> pincode,
     find |-> find, submit |-> submit, form |-> form, now |-> Now,
     new_session |-> fresh]

\* Lines 10-57: the run up to and including the sidebar.
Prologue(ev) ==
    [BlankUI EXCEPT !.new_session = ev.new_session,
                    !.submit_event = ev.submit,
                    !.fields = IF ev.submit THEN ev.form ELSE NoForm,
                    !.session_before = ev.session]

\* Lines 74-305: the right-hand column for an uploaded image.
MainColumn(ev, model, page) ==
    LET result     == predict(ImageOpen(ev.image[1])[1], model)
        fault_type == result.fault_type
        confidence == result.confidence
        fault_info == get_fault_info(fault_type)
        lookup     == LookupRequested(ev.find, ev.pincode)
        called     == lookup /\ ev.pincode # <<>>
        office     == IF called THEN find_nearest_office(ev.pincode) ELSE Absent
        form       == called /\ FormRendered(office, fault_type)
        submitted  == form /\ ev.submit
        valid      == submitted /\ RequiredFieldsPresent(ev.form)
        report     == BuildReport(ev.now, ev.form, ev.pincode, fault_type,
                                  confidence, fault_info, office[1])
        text       == BuildReportText(report, ev.form, ev.pincode, fault_type,
                                      confidence, fault_info, office[1])
    IN  [session |-> IF valid THEN StoreReport(ev.session, report, text) ELSE ev.session,
         ui |-> [page EXCEPT
                   !.prediction = Some(result),
                   !.level = ResultLevel(fault_type, fault_info),
                   !.description = Some(DescriptionShown(fault_info)),
                   !.severity_line = SeverityShown(fault_type, fault_info),
                   !.symptoms = SymptomsShown(fault_info),
                   !.repair_steps = RepairShown(fault_info),
                   !.prevention = PreventionShown(fault_info),
                   !.cost = CostShown(fault_info),
                   !.pincode_input = TRUE,
                   !.find_office_btn = ev.find,
                   !.lookup = IF ~called THEN "skipped"
                              ELSE IF office = Absent THEN "absent" ELSE "found",
                   !.office = office,
                   !.notice = NoticeFor(TRUE, lookup, ev.pincode, office),
                   !.form_rendered = form,
                   !.submitted = submitted,
                   !.form_msg = IF ~submitted THEN "none"
                                ELSE IF valid THEN "success" ELSE "validation_error",
                   !.report = IF valid THEN Some(report) ELSE Absent,
                   !.report_text = IF valid THEN Some(text) ELSE Absent,
                   !.stored = IF valid THEN Some(text) ELSE Absent]]

\* The whole script.  A widget that a run does not render loses its value.
\* The run ends with an exception (crashed) when load_model raises at line 23,
\* before anything is rendered, or when PIL raises at line 70, after the
\* sidebar and the uploader.
ScriptRun(ev) ==
    LET got == get_model(model_cache, weights, load_calls)
    IN  IF ~got.ok
        THEN [cache |-> got.cache, calls |-> got.calls, session |-> ev.session,
              image |-> Absent, pincode |-> <<>>,
              ui |-> [Prologue(ev) EXCEPT !.crashed = TRUE]]
        ELSE LET page == [Prologue(ev) EXCEPT !.uploader = TRUE,
                                              !.download = SidebarDownload(ev.session)]
             IN  IF ev.image = Absent
                 THEN [cache |-> got.cache, calls |-> got.calls, session |-> ev.session,
                       image |-> Absent, pincode |-> <<>>,
                       ui |-> [page EXCEPT !.notice = NoticeFor(FALSE, FALSE, <<>>, Absent)]]
                 ELSE IF ImageOpen(ev.image[1]) = Absent
                 THEN [cache |-> got.cache, calls |-> got.calls, session |-> ev.session,
                       image |-> ev.image, pincode |-> <<>>,
                       ui |-> [page EXCEPT !.crashed = TRUE]]
                 ELSE LET main == MainColumn(ev, got.cache[1], page)
                      IN  [cache |-> got.cache, calls |-> got.calls,
                           session |-> main.session,
                           image |-> ev.image, pincode |-> ev.pincode,
                           ui |-> main.ui]

\* The fault section of the report a run assembled, as the record and the
\* text carry it.
FaultSection(page) ==
    [fault_type |-> page.report[1].fault_detection.fault_type,
     severity |-> page.report[1].fault_detection.severity,
     description |-> page.report[1].fault_detection.description,
     text_severity |-> page.report_text[1][9][2],
     text_description |-> page.report_text[1][10][2]]

Commit(ev) ==
    /\ IF model_cache = Absent THEN load_calls < MaxLoads ELSE TRUE
    /\ \E out \in {ScriptRun(ev)} :
        /\ model_cache' = out.cache
        /\ load_calls' = out.calls
        /\ session_state' = out.session
        /\ uploaded_image' = out.image
        /\ user_pincode' = out.pincode
        /\ ui' = out.ui
        /\ last_stored' = IF ev.new_session THEN Absent
                          ELSE IF ui.stored # Absent THEN ui.stored ELSE last_stored
        /\ assembled' = IF out.ui.report # Absent
                        THEN assembled \cup {FaultSection(out.ui)}
                        ELSE assembled

----
\* The process before any browser connects.

Init ==
    /\ weights = FALSE
    /\ fault_db \in FaultTables
    /\ model_cache = Absent
    /\ load_calls = 0
    /\ session_state = EmptySession
    /\ uploaded_image = Absent
    /\ user_pincode = <<>>
    /\ ui = BlankUI
    /\ last_stored = Absent
    /\ assembled = {}

\* create_model.py: writes model/solar_model.pth.
RunCreateModel ==
    /\ weights' = TRUE
    /\ UNCHANGED <<fault_db, model_cache, load_calls, session_state,
                   uploaded_image, user_pincode, ui, last_stored, assembled>>

\* A browser (re)connects: a fresh session and its first run.
NewSession ==
    /\ Commit(Event(EmptySession, Absent, <<>>, FALSE, FALSE, NoForm, TRUE))
    /\ UNCHANGED <<weights, fault_db>>

\* A rerun that changes no widget (the "Rerun" command, a download click).
Rerun ==
    /\ Commit(Event(session_state, uploaded_image, user_pincode,
                    FALSE, FALSE, NoForm, FALSE))
    /\ UNCHANGED <<weights, fault_db>>

UploadImage ==
    /\ ui.uploader
    /\ \E file \in Uploads :
        /\ uploaded_image # Some(file)
        /\ Commit(Event(session_state, Some(file), user_pincode,
                        FALSE, FALSE, NoForm, FALSE))
    /\ UNCHANGED <<weights, fault_db>>

RemoveImage ==
    /\ ui.uploader
    /\ uploaded_image # Absent
    /\ Commit(Event(session_state, Absent, user_pincode,
                    FALSE, FALSE, NoForm, FALSE))
    /\ UNCHANGED <<weights, fault_db>>

EditPincode ==
    /\ ui.pincode_input
    /\ \E pin \in Pincodes :
        /\ pin # user_pincode
        /\ Commit(Event(session_state, uploaded_image, pin,
                        FALSE, FALSE, NoForm, FALSE))
    /\ UNCHANGED <<weights, fault_db>>

ClickFindOffice ==
    /\ ui.pincode_input
    /\ Commit(Event(session_state, uploaded_image, user_pincode,
                    TRUE, FALSE, NoForm, FALSE))
    /\ UNCHANGED <<weights, fault_db>>

SubmitForm ==
    /\ ui.form_rendered
    /\ \E f \in FormInputs :
        Commit(Event(session_state, uploaded_image, user_pincode,
                     FALSE, TRUE, f, FALSE))
    /\ UNCHANGED <<weights, fault_db>>

Next ==
    \/ RunCreateModel
    \/ NewSession
    \/ Rerun
    \/ UploadImage
    \/ RemoveImage
    \/ EditPincode
    \/ ClickFindOffice
    \/ SubmitForm

Spec == Init /\ [][Next]_vars

----
\* Properties.

\* The value of the line of a text report that starts with `key`.
TextValue(text, key) ==
    text[CHOOSE i \in 1..Len(text) : text[i][1] = key][2]

SomeRequiredEmpty(f) == f.name = "" \/ f.phone = "" \/ f.email = ""
AllRequiredGiven(f) == f.name # "" /\ f.phone # "" /\ f.email # ""

\* `str` is `c` (in 1/10000) as a percentage rounded to one decimal place.
IsOneDecimalPct(str, c) ==
    \E w \in 0..100, d \in 0..9 :
        /\ str = ToString(w) \o "." \o ToString(d) \o "%"
        /\ (10 * w + d) * 10 - c <= 5
        /\ c - (10 * w + d) * 10 <= 5

HasPrediction == ui.prediction # Absent
Label == ui.prediction[1].fault_type
SessionUnchanged == session_state = ui.session_before

\* C1: a run triggered by submitting the form with name, phone or email
\* empty builds no report record and no report text and leaves both session
\* entries as they were; it does not crash, and where the submit handler
\* runs it shows the validation error.
ValidationPrecedesAssembly ==
    (ui.submit_event /\ SomeRequiredEmpty(ui.fields)) =>
        /\ ui.report = Absent
        /\ ui.report_text = Absent
        /\ ui.stored = Absent
        /\ SessionUnchanged
        /\ ~ui.crashed
        /\ (ui.submitted => ui.form_msg = "validation_error")

\* C1 witness: the handler rejected a submission while an earlier report was
\* in the session.
RejectedWithStoredReport ==
    /\ ui.submitted
    /\ SomeRequiredEmpty(ui.fields)
    /\ ui.form_msg = "validation_error"
    /\ ui.session_before.fault_report # Absent

\* C2: when the submit handler runs with name, phone and email non-empty it
\* builds the report; the text carries the predicted label, the confidence as
\* a one-decimal percentage and the email and phone of the office found for
\* the entered pincode; the record carries the same values; both are stored.
AssemblySucceeds ==
    (ui.submitted /\ AllRequiredGiven(ui.fields)) =>
        /\ ui.report # Absent
        /\ ui.report_text # Absent
        /\ ui.form_msg = "success"
        /\ find_nearest_office(user_pincode) # Absent
        /\ LET r == ui.report[1]
               t == ui.report_text[1]
               p == ui.prediction[1]
               o == find_nearest_office(user_pincode)[1]
           IN  /\ TextValue(t, "- Type: ") = p.fault_type
               /\ IsOneDecimalPct(TextValue(t, "- Confidence: "), p.confidence)
               /\ TextValue(t, "- Email: ") = o.email
               /\ TextValue(t, "- Phone: ") = o.phone
               /\ r.fault_detection.fault_type = p.fault_type
               /\ r.fault_detection.confidence = TextValue(t, "- Confidence: ")
               /\ r.office_details.email = o.email
               /\ r.office_details.phone = o.phone
               /\ session_state.fault_report = Some(r)
               /\ session_state.report_text = Some(t)

\* C2 witness: a report for a confidence whose tenth rounds up (87.66 %),
\* sent to the office of the longer of two matching prefixes.
ReportAssembledRoundedUp ==
    /\ ui.submitted
    /\ AllRequiredGiven(ui.fields)
    /\ ui.report # Absent
    /\ ui.prediction[1].confidence = 8766
    /\ ui.report[1].office_details.office_name = "delhi-central"

\* C3: when the lookup returns absent the run shows the no-office message,
\* renders no form, assembles nothing and leaves the session alone; a report
\* is assembled only in a run that resolved an office.
UnmatchedPincodeIsNoError ==
    /\ ui.lookup = "absent" =>
           /\ ui.notice = "no_office"
           /\ ~ui.form_rendered
           /\ ui.report = Absent
           /\ ui.report_text = Absent
           /\ SessionUnchanged
           /\ ~ui.crashed
    /\ ui.report # Absent => (ui.lookup = "found" /\ ui.office # Absent)

\* C3 witness: a faulty panel, a pincode no prefix matches, and a report
\* from an earlier run still in the session.
NoOfficeForFaultyPanel ==
    /\ ui.lookup = "absent"
    /\ HasPrediction
    /\ Label # HealthyPanel
    /\ ui.session_before.fault_report # Absent

\* C4: load_model is invoked at most once in the process, and a prediction
\* uses the handle that load returned.
LoadedAtMostOnce ==
    /\ load_calls <= 1
    /\ HasPrediction =>
           (model_cache # Absent /\ ui.prediction[1].handle = model_cache[1])

\* C5: the report offered for download in a run was assembled from that
\* run's own prediction and pincode.
DownloadIsOfThisInteraction ==
    ui.download # Absent =>
        /\ HasPrediction
        /\ ui.session_before.fault_report # Absent
        /\ LET r == ui.session_before.fault_report[1]
           IN  /\ r.fault_detection.fault_type = Label
               /\ r.fault_detection.confidence = FormatPct(ui.prediction[1].confidence)
               /\ r.user_details.pincode = user_pincode

\* C6: any two reports assembled in the process whose labels agree carry the
\* same severity and description, in the record and in the text, whatever
\* their images, confidences, contact fields and pincodes were.
DescriptionDependsOnLabelOnly ==
    \A a \in assembled, b \in assembled :
        a.fault_type = b.fault_type =>
            /\ a.description = b.description
            /\ a.severity = b.severity
            /\ a.text_description = b.text_description
            /\ a.text_severity = b.text_severity
            /\ a.text_description = a.description
            /\ a.text_severity = a.severity

\* C6 witness: a run assembles a report with the label of the report an
\* earlier run left in the session; the two differ in confidence, in pincode
\* and in office.
SameLabelDifferentRuns ==
    /\ ui.report # Absent
    /\ ui.session_before.fault_report # Absent
    /\ LET new == ui.report[1]
           old == ui.session_before.fault_report[1]
       IN  /\ new.fault_detection.fault_type = old.fault_detection.fault_type
           /\ new.fault_detection.confidence # old.fault_detection.confidence
           /\ new.user_details.pincode # old.user_details.pincode
           /\ new.office_details.office_name # old.office_details.office_name
           /\ FaultSection(ui) \in assembled

\* C7: for a faulty label without an entry in the table the result is shown
\* at the info level, without symptoms and cost, with empty repair and
\* prevention lists, and a report assembled from it records severity
\* 'Unknown' and the description shown on screen.
EmptyInfoHandledConsistently ==
    (HasPrediction /\ Label # HealthyPanel /\ Label \notin DOMAIN fault_db) =>
        /\ ~ui.crashed
        /\ ui.level = "info"
        /\ ui.symptoms = Absent
        /\ ui.cost = Absent
        /\ ui.repair_steps = <<>>
        /\ ui.prevention = <<>>
        /\ ui.report # Absent =>
               /\ ui.report[1].fault_detection.severity = "Unknown"
               /\ ui.report[1].fault_detection.description = ui.description[1]

\* C8: the run triggered by submitting the displayed form with name, phone
\* and email non-empty assembles the report and stores it in the session.
SubmissionYieldsReport ==
    (ui.submit_event /\ AllRequiredGiven(ui.fields)) =>
        /\ ui.report # Absent
        /\ session_state.fault_report = ui.report

\* C9: the download button is rendered exactly when an earlier run of the
\* session stored a report, and it offers the text the latest such run
\* stored.
DownloadOffersLastStored ==
    ui.download = last_stored

\* C9 witness: a run that offers the previous text while storing a new one.
DownloadLagsByOneRun ==
    /\ ui.download # Absent
    /\ ui.stored # Absent
    /\ ui.download # ui.stored

\* C10: a run whose label is "Healthy Panel" renders no form, assembles no
\* report, leaves the session entries alone and shows the result at the
\* success level.
NoReportForHealthyPanel ==
    (HasPrediction /\ Label = HealthyPanel) =>
        /\ ~ui.form_rendered
        /\ ui.report = Absent
        /\ ui.report_text = Absent
        /\ SessionUnchanged
        /\ ui.level = "success"

\* C10 witness: a healthy panel whose table entry has severity High, with an
\* office found after a click on Find Office and a report in the session.
HealthyWithOfficeFound ==
    /\ HasPrediction
    /\ Label = HealthyPanel
    /\ fault_db[HealthyPanel].severity = "High"
    /\ ui.find_office_btn
    /\ ui.office # Absent
    /\ ui.session_before.fault_report # Absent

====
